---- MODULE Spec2Model ----
(***************************************************************************)
(* A model of the ping monitoring scheduler of ping_xiangmu:               *)
(*   modules/task_manager.py  TaskManager  (job registry, watcher, stop)   *)
(*   modules/ping_monitor.py  PingMonitor  (sampling loop, flush, report)  *)
(*   modules/data_manager.py  DataManager  (store reads and retention)     *)
(*   app.py                   start_ping   (the validation before create)  *)
(*                                                                         *)
(* Threads: one per create request (start_ping -> create_task), one        *)
(* sampling thread and one watcher thread per admitted task, one stop      *)
(* request at a time, one status reader, and the cleanup callers.  Every   *)
(* statement that touches shared state is one step.  TaskManager.lock is   *)
(* the variable lock; a section of the code that holds it over several     *)
(* visible statements is several steps with lock held.                     *)
(*                                                                         *)
(* Time: clock is datetime.now() counted in whole hours.  Sleeps and the   *)
(* bounded join are shorter than one hour, so they are steps that may be   *)
(* taken at any clock value.                                               *)
(***************************************************************************)
EXTENDS Integers, Sequences, FiniteSets, TLC

\* ------------------------------------------------------------- bounds
MaxCalls == 2          \* create requests, one task id each
MaxTime == 1           \* the clock stops advancing here
MaxStopCalls == 2      \* stop requests in one behaviour
MaxProbes == 1         \* loop iterations of one sampler under SpecStore
MaxStoreTasks == 1     \* tasks under SpecStore
MaxReadTasks == 1      \* tasks under SpecRead
max_concurrent_tasks == 1   \* the ceiling TaskManager is constructed with
MaxLoopProbes == 11    \* loop iterations of one sampler under SpecLoop
MaxLoopTasks == 1      \* tasks under SpecLoop

\* ------------------------------------------------ program constants
MaxDurationHours == 24      \* app.py: duration_hours > 24 is refused
BatchSize == 10             \* ping_monitor.py: len(data_points) >= 10
HoursPerDay == 24           \* timedelta(days=...) on a clock of hours
Hundredths == 100           \* round(progress, 2): progress in units of 0.01 %

FullProgress == 100 * Hundredths

Tasks == 1..MaxCalls
Times == 0..MaxTime

\* request.form inputs of start_ping
TargetInputs == {"", "hostA"}
DurationInputs == {0, 1, 24, 25}
\* days_to_keep inputs of the two cleanups
DaysInputs == {0, 1}

Min(a, b) == IF a <= b THEN a ELSE b

VARIABLES
  clock,            \* datetime.now()
  lock,             \* TaskManager.lock: <<"free", 0>> or <<holder, task>>
  cpc,              \* create request c: where it is in start_ping / create_task
  active_tasks,     \* TaskManager.active_tasks (its keys; the value is mon[t])
  task_history,     \* TaskManager.task_history (its keys; the value is rec[t])
  completed_tasks,  \* TaskManager.completed_tasks: references to rec[t], in order
  rec,              \* the dict object of each task (shared by reference)
  mon,              \* the PingMonitor object of each task
  ppc,              \* sampling thread of task t: where it is in _ping_loop
  data_points,      \* _ping_loop's local buffer
  nprobes,          \* loop iterations done by the sampler of t
  files,            \* data/raw: file name |-> [rows, mtime]
  reports,          \* data/reports: task |-> [stats, mtime]
  wpc,              \* watcher thread of task t: where it is in _monitor_task
  wlocal,           \* _monitor_task's locals: start_time, elapsed
  spc,              \* the stop request: where it is in stop_task
  stopResults,      \* what stop_task(t) returned, call after call
  nstops,           \* stop requests made
  flushed,          \* per task: the rows its _save_data calls appended, in order
  purged,           \* tasks a cleanup removed from the registry
  rpc               \* the status reader: the record it holds and what it has read

vars == <<clock, lock, cpc, active_tasks, task_history, completed_tasks, rec, mon,
          ppc, data_points, nprobes, files, reports, wpc, wlocal, spc,
          stopResults, nstops, flushed, purged, rpc>>

Free == <<"free", 0>>

NoRec == [status |-> "none", target_ip |-> "", duration_hours |-> 0,
          start_time |-> 0, progress |-> 0, elapsed |-> {}, end_time |-> {}]

\* PingMonitor.__init__
NewMonitor(target, d) ==
  [target_ip |-> target, duration |-> d, is_running |-> FALSE,
   start_time |-> {}, data_file |-> {}, thread |-> FALSE]

NoMonitor == NewMonitor("", 0)

\* the reader holds no record
NoRead == [pc |-> "idle", task |-> 0, status |-> "none", progress |-> 0,
           end_time |-> {}]

Init ==
  /\ clock = 0
  /\ lock = Free
  /\ cpc = [c \in Tasks |-> "idle"]
  /\ active_tasks = {}
  /\ task_history = {}
  /\ completed_tasks = <<>>
  /\ rec = [t \in Tasks |-> NoRec]
  /\ mon = [t \in Tasks |-> NoMonitor]
  /\ ppc = [t \in Tasks |-> "none"]
  /\ data_points = [t \in Tasks |-> <<>>]
  /\ nprobes = [t \in Tasks |-> 0]
  /\ files = <<>>
  /\ reports = <<>>
  /\ wpc = [t \in Tasks |-> "none"]
  /\ wlocal = [t \in Tasks |-> [start_time |-> 0, elapsed |-> 0]]
  /\ spc = [pc |-> "idle", task |-> 0]
  /\ stopResults = [t \in Tasks |-> <<>>]
  /\ nstops = 0
  /\ flushed = [t \in Tasks |-> <<>>]
  /\ purged = {}
  /\ rpc = NoRead

registryVars == <<active_tasks, task_history, completed_tasks, rec, purged>>
samplerVars == <<ppc, data_points, nprobes, flushed>>
storeVars == <<files, reports>>
watcherVars == <<wpc, wlocal>>
stopVars == <<spc, stopResults, nstops>>

\* The wall clock advances.
Tick ==
  /\ clock < MaxTime
  /\ clock' = clock + 1
  /\ UNCHANGED <<rpc, lock, cpc, mon, registryVars, samplerVars, storeVars,
                 watcherVars, stopVars>>

\* ------------------------------------------------ create (app.py, task_manager.py)

\* the capacity check off by one: a full registry still admits
AtCapacity_OffByOne == Cardinality(active_tasks) > max_concurrent_tasks

\* len(self.active_tasks) >= self.max_concurrent_tasks, read without the lock
AtCapacity == Cardinality(active_tasks) >= max_concurrent_tasks

\* duration_hours > 24 in start_ping
DurationRefused(d) == d > MaxDurationHours

\* start_ping up to and including create_task's capacity check and the
\* construction of the PingMonitor.  Request c takes task id c (uuid4 is fresh).
start_ping(c, target, d) ==
  /\ cpc[c] = "idle"
  /\ IF c = 1 THEN TRUE ELSE cpc[c - 1] # "idle"
  /\ IF target = ""
       THEN cpc' = [cpc EXCEPT ![c] = "bad_target"] /\ UNCHANGED mon
     ELSE IF DurationRefused(d)
       THEN cpc' = [cpc EXCEPT ![c] = "bad_duration"] /\ UNCHANGED mon
     ELSE IF AtCapacity
       THEN cpc' = [cpc EXCEPT ![c] = "capacity"] /\ UNCHANGED mon
     ELSE /\ cpc' = [cpc EXCEPT ![c] = "register"]
          /\ mon' = [mon EXCEPT ![c] = NewMonitor(target, d)]
  /\ UNCHANGED <<rpc, clock, lock, registryVars, samplerVars, storeVars,
                 watcherVars, stopVars>>

\* with self.lock: active_tasks[task_id] = monitor; task_history[task_id] = {...}
create_task_register(c) ==
  /\ cpc[c] = "register"
  /\ lock = Free
  /\ active_tasks' = active_tasks \cup {c}
  /\ task_history' = task_history \cup {c}
  /\ rec' = [rec EXCEPT ![c] =
        [status |-> "running", target_ip |-> mon[c].target_ip,
         duration_hours |-> mon[c].duration, start_time |-> clock,
         progress |-> 0, elapsed |-> {}, end_time |-> {}]]
  /\ cpc' = [cpc EXCEPT ![c] = "start"]
  /\ UNCHANGED <<rpc, clock, lock, mon, completed_tasks, purged, samplerVars,
                 storeVars, watcherVars, stopVars>>

\* monitor.start(): self.is_running = True; self.start_time = datetime.now()
monitor_start(c) ==
  /\ cpc[c] = "start"
  /\ mon' = [mon EXCEPT ![c].is_running = TRUE, ![c].start_time = {clock}]
  /\ cpc' = [cpc EXCEPT ![c] = "thread"]
  /\ UNCHANGED <<rpc, clock, lock, registryVars, samplerVars, storeVars,
                 watcherVars, stopVars>>

\* monitor.start(): self.thread = Thread(target=self._ping_loop); thread.start(),
\* then create_task starts the watcher thread and returns the id.
create_task_spawn(c) ==
  /\ cpc[c] = "thread"
  /\ mon' = [mon EXCEPT ![c].thread = TRUE]
  /\ ppc' = [ppc EXCEPT ![c] = "init"]
  /\ wpc' = [wpc EXCEPT ![c] = "init"]
  /\ cpc' = [cpc EXCEPT ![c] = "done"]
  /\ UNCHANGED <<rpc, clock, lock, registryVars, data_points, nprobes, flushed,
                 storeVars, wlocal, stopVars>>

\* ------------------------------------------------ watcher (_monitor_task)

\* progress computed from the time that remains instead of the time elapsed
ProgressOf_Remaining(elapsed, d) ==
  Min(FullProgress, (2 * (d - elapsed) * FullProgress + d) \div (2 * d))

\* round(min(100, elapsed / (duration_hours * 3600) * 100), 2), in hundredths
ProgressOf(elapsed, d) ==
  Min(FullProgress, (2 * elapsed * FullProgress + d) \div (2 * d))

\* start_time = datetime.now(); end_time = start_time + timedelta(hours=...)
monitor_task_init(t) ==
  /\ wpc[t] = "init"
  /\ wlocal' = [wlocal EXCEPT ![t].start_time = clock]
  /\ wpc' = [wpc EXCEPT ![t] = "loop"]
  /\ UNCHANGED <<rpc, clock, lock, cpc, mon, registryVars, samplerVars, storeVars,
                 stopVars>>

\* a watcher that at the deadline does not call monitor.stop() and break, but
\* goes on waiting for the flag to be cleared
monitor_task_loop_NoDeadline(t) ==
  /\ wpc[t] = "loop"
  /\ IF ~mon[t].is_running
       THEN wpc' = [wpc EXCEPT ![t] = "final"] /\ UNCHANGED <<mon, wlocal>>
     ELSE IF clock >= wlocal[t].start_time + mon[t].duration
       THEN UNCHANGED <<wpc, mon, wlocal>>
     ELSE /\ wlocal' = [wlocal EXCEPT ![t].elapsed = clock - wlocal[t].start_time]
          /\ wpc' = [wpc EXCEPT ![t] = "update"]
          /\ UNCHANGED mon
  /\ UNCHANGED <<rpc, clock, lock, cpc, registryVars, samplerVars, storeVars, stopVars>>

\* One evaluation of the loop head and of the body down to the lock:
\* is_running false leaves the loop; at the deadline monitor.stop() clears the
\* flag (its join is a bounded wait without the lock) and breaks; otherwise
\* elapsed is computed for the update.
monitor_task_loop(t) ==
  /\ wpc[t] = "loop"
  /\ IF ~mon[t].is_running
       THEN wpc' = [wpc EXCEPT ![t] = "final"] /\ UNCHANGED <<mon, wlocal>>
     ELSE IF clock >= wlocal[t].start_time + mon[t].duration
       THEN /\ mon' = [mon EXCEPT ![t].is_running = FALSE]
            /\ wpc' = [wpc EXCEPT ![t] = "final"]
            /\ UNCHANGED wlocal
     ELSE /\ wlocal' = [wlocal EXCEPT ![t].elapsed = clock - wlocal[t].start_time]
          /\ wpc' = [wpc EXCEPT ![t] = "update"]
          /\ UNCHANGED mon
  /\ UNCHANGED <<rpc, clock, lock, cpc, registryVars, samplerVars, storeVars, stopVars>>

\* with self.lock: progress and elapsed are written; then time.sleep(5).  The
\* local elapsed is recomputed by the next iteration and is cleared here.
monitor_task_update(t) ==
  /\ wpc[t] = "update"
  /\ lock = Free
  /\ rec' = IF t \in task_history
              THEN [rec EXCEPT ![t].progress =
                        ProgressOf(wlocal[t].elapsed, mon[t].duration),
                      ![t].elapsed = {wlocal[t].elapsed}]
              ELSE rec
  /\ wpc' = [wpc EXCEPT ![t] = "loop"]
  /\ wlocal' = [wlocal EXCEPT ![t].elapsed = 0]
  /\ UNCHANGED <<rpc, clock, lock, cpc, mon, active_tasks, task_history,
                 completed_tasks, purged, samplerVars, storeVars, stopVars>>

\* The terminal block: the lock is taken, the task leaves active_tasks and,
\* when it is in task_history, its status becomes 'completed'.
monitor_task_final(t) ==
  /\ wpc[t] = "final"
  /\ lock = Free
  /\ active_tasks' = active_tasks \ {t}
  /\ IF t \in task_history
       THEN /\ rec' = [rec EXCEPT ![t].status = "completed"]
            /\ lock' = <<"monitor_task", t>>
            /\ wpc' = [wpc EXCEPT ![t] = "end_time"]
       ELSE /\ wpc' = [wpc EXCEPT ![t] = "done"]
            /\ UNCHANGED <<rec, lock>>
  /\ UNCHANGED <<rpc, clock, cpc, mon, task_history, completed_tasks, purged,
                 samplerVars, storeVars, wlocal, stopVars>>

\* self.task_history[task_id]['end_time'] = datetime.now().isoformat()
monitor_task_end_time(t) ==
  /\ wpc[t] = "end_time"
  /\ rec' = [rec EXCEPT ![t].end_time = {clock}]
  /\ wpc' = [wpc EXCEPT ![t] = "progress"]
  /\ UNCHANGED <<rpc, clock, lock, cpc, mon, active_tasks, task_history,
                 completed_tasks, purged, samplerVars, storeVars, wlocal, stopVars>>

\* progress = 100; completed_tasks.append(record); the lock is released
monitor_task_finish(t) ==
  /\ wpc[t] = "progress"
  /\ rec' = [rec EXCEPT ![t].progress = FullProgress]
  /\ completed_tasks' = Append(completed_tasks, t)
  /\ lock' = Free
  /\ wpc' = [wpc EXCEPT ![t] = "done"]
  /\ UNCHANGED <<rpc, clock, cpc, mon, active_tasks, task_history, purged,
                 samplerVars, storeVars, wlocal, stopVars>>

\* ------------------------------------------------ stop (stop_task, PingMonitor.stop)

\* with self.lock: a task that is not active returns False at once; for an active
\* one monitor.stop() clears is_running and joins the thread if there is one.
stop_task_begin(t) ==
  /\ spc.pc = "idle"
  /\ lock = Free
  /\ nstops < MaxStopCalls
  /\ nstops' = nstops + 1
  /\ IF t \notin active_tasks
       THEN /\ stopResults' = [stopResults EXCEPT ![t] = Append(@, FALSE)]
            /\ UNCHANGED <<lock, mon, spc>>
       ELSE /\ lock' = <<"stop_task", t>>
            /\ mon' = [mon EXCEPT ![t].is_running = FALSE]
            /\ spc' = [pc |-> IF mon[t].thread THEN "join" ELSE "mark", task |-> t]
            /\ UNCHANGED stopResults
  /\ UNCHANGED <<rpc, clock, cpc, registryVars, samplerVars, storeVars, watcherVars>>

\* self.thread.join(timeout=5) returns: the thread has ended or 5 s have passed
stop_task_join ==
  /\ spc.pc = "join"
  /\ spc' = [spc EXCEPT !.pc = "mark"]
  /\ UNCHANGED <<rpc, clock, lock, cpc, mon, registryVars, samplerVars, storeVars,
                 watcherVars, stopResults, nstops>>

\* self.task_history[task_id]['status'] = 'stopped' (KeyError leaves the with block)
stop_task_mark ==
  /\ spc.pc = "mark"
  /\ IF spc.task \in task_history
       THEN /\ rec' = [rec EXCEPT ![spc.task].status = "stopped"]
            /\ spc' = [spc EXCEPT !.pc = "pop"]
            /\ UNCHANGED lock
       ELSE /\ spc' = [pc |-> "idle", task |-> 0]
            /\ lock' = Free
            /\ UNCHANGED rec
  /\ UNCHANGED <<rpc, clock, cpc, mon, active_tasks, task_history, completed_tasks,
                 purged, samplerVars, storeVars, watcherVars, stopResults, nstops>>

\* stop_task without active_tasks.pop: the stopped task stays in the active set
stop_task_finish_NoPop ==
  /\ spc.pc = "pop"
  /\ rec' = [rec EXCEPT ![spc.task].end_time = {clock}]
  /\ stopResults' = [stopResults EXCEPT ![spc.task] = Append(@, TRUE)]
  /\ spc' = [pc |-> "idle", task |-> 0]
  /\ lock' = Free
  /\ UNCHANGED <<rpc, clock, cpc, mon, active_tasks, task_history, completed_tasks,
                 purged, samplerVars, storeVars, watcherVars, nstops>>

\* end_time = now; active_tasks.pop(task_id, None); return True
stop_task_finish ==
  /\ spc.pc = "pop"
  /\ rec' = [rec EXCEPT ![spc.task].end_time = {clock}]
  /\ active_tasks' = active_tasks \ {spc.task}
  /\ stopResults' = [stopResults EXCEPT ![spc.task] = Append(@, TRUE)]
  /\ spc' = [pc |-> "idle", task |-> 0]
  /\ lock' = Free
  /\ UNCHANGED <<rpc, clock, cpc, mon, task_history, completed_tasks, purged,
                 samplerVars, storeVars, watcherVars, nstops>>

\* ------------------------------------------------ cleanup

\* task.get('end_time', task.get('start_time', ''))
TaskTime(t) ==
  IF rec[t].end_time # {} THEN CHOOSE x \in rec[t].end_time : TRUE
  ELSE rec[t].start_time

\* datetime.now() - timedelta(days=days_to_keep)
Cutoff(d) == clock - d * HoursPerDay

\* what cleanup_old_tasks keeps in completed_tasks
KeptCompleted(d) == SelectSeq(completed_tasks, LAMBDA t : TaskTime(t) > Cutoff(d))

\* task_ids_to_remove of cleanup_old_tasks
RemovedHistory(d) ==
  {t \in task_history : rec[t].status = "completed" /\ TaskTime(t) < Cutoff(d)}

SeqRange(s) == {s[i] : i \in 1..Len(s)}

\* TaskManager.cleanup_old_tasks, the whole with block
cleanup_old_tasks(d) ==
  /\ lock = Free
  /\ completed_tasks' = KeptCompleted(d)
  /\ task_history' = task_history \ RemovedHistory(d)
  /\ purged' = purged \cup RemovedHistory(d)
                      \cup (SeqRange(completed_tasks) \ SeqRange(KeptCompleted(d)))
  /\ UNCHANGED <<rpc, clock, lock, cpc, mon, active_tasks, rec, samplerVars, storeVars,
                 watcherVars, stopVars>>

\* file.stat().st_mtime < cutoff_date.timestamp(): the names clean_old_data unlinks
OldNames(store, d) == {n \in DOMAIN store : store[n].mtime < Cutoff(d)}

Restrict(f, S) == [x \in S |-> f[x]]

\* DataManager.clean_old_data: raw files and reports (charts are written with
\* the report and share its fate)
clean_old_data(d) ==
  /\ files' = Restrict(files, DOMAIN files \ OldNames(files, d))
  /\ reports' = Restrict(reports, DOMAIN reports \ OldNames(reports, d))
  /\ UNCHANGED <<rpc, clock, lock, cpc, mon, registryVars, samplerVars, watcherVars,
                 stopVars>>

\* ------------------------------------------------ sampler (_ping_loop)

\* What ping(target, timeout=2, unit='ms') can do: return a latency, return None
\* (no reply within the timeout), or raise.
Reply(v) == [kind |-> "value", v |-> v]
NoReply == [kind |-> "none", v |-> 0]
Raises == [kind |-> "raise", v |-> 0]

\* Python truthiness of the value ping returned
Truthy(o) == o.kind = "value" /\ o.v # 0

\* the data_point dict of the try branch
DataPoint(t, o) ==
  [timestamp |-> clock, target |-> mon[t].target_ip,
   response_time |-> IF Truthy(o) THEN {o.v} ELSE {},
   status |-> IF Truthy(o) THEN "success" ELSE "timeout",
   error_col |-> FALSE, src |-> t]

\* the error_point dict of the except branch (it carries an 'error' key)
ErrorPoint(t) ==
  [timestamp |-> clock, target |-> mon[t].target_ip, response_time |-> {},
   status |-> "error", error_col |-> TRUE, src |-> t]

\* self.start_time + self.duration
LoopEnd(t) == (CHOOSE s \in mon[t].start_time : TRUE) + mon[t].duration

\* a while condition that also gives up after a probe that failed
LoopGoesOn_UntilFailure(t) ==
  /\ mon[t].is_running /\ clock < LoopEnd(t)
  /\ \A i \in 1..Len(data_points[t]) : data_points[t][i].status = "success"

\* the while condition of _ping_loop
LoopGoesOn(t) == mon[t].is_running /\ clock < LoopEnd(t)

\* the file name built at loop entry: ping_{target_ip}_{timestamp}.csv
DataFileName(t) == <<mon[t].target_ip, clock>>

DataFile(t) == CHOOSE n \in mon[t].data_file : TRUE

\* pd.DataFrame(data_points): the frame has an 'error' column if any point has
HasErrorCol(points) == \E i \in 1..Len(points) : points[i].error_col

\* the rows as to_csv writes them: every row of the batch gets the batch's columns
CsvRows(points) ==
  [i \in 1..Len(points) |-> [points[i] EXCEPT !.error_col = HasErrorCol(points)]]

\* _save_data: append mode, the header only when the file does not exist yet
SavedFiles(t, points) ==
  LET n == DataFile(t)
      new == [rows |-> CsvRows(points), mtime |-> clock,
              header_error_col |-> HasErrorCol(points)]
  IN  IF n \in DOMAIN files
        THEN [files EXCEPT ![n].rows = @ \o CsvRows(points), ![n].mtime = clock]
        ELSE [x \in DOMAIN files \cup {n} |-> IF x = n THEN new ELSE files[x]]

\* data_points = []; the deadline; the data file name (the file is not created yet)
ping_loop_init(t) ==
  /\ ppc[t] = "init"
  /\ mon' = [mon EXCEPT ![t].data_file = {DataFileName(t)}]
  /\ ppc' = [ppc EXCEPT ![t] = "loop"]
  /\ UNCHANGED <<rpc, clock, lock, cpc, registryVars, data_points, nprobes, flushed,
                 storeVars, watcherVars, stopVars>>

\* One iteration of the while loop: the probe, the append, the flush at 10
\* points, and the except branch, which also catches a failed flush; then
\* time.sleep(1).  saved is whether _save_data succeeds if it is called.
ping_loop_iteration(t, o, saved, limit) ==
  /\ ppc[t] = "loop"
  /\ LoopGoesOn(t)
  /\ nprobes[t] < limit
  /\ nprobes' = [nprobes EXCEPT ![t] = @ + 1]
  /\ LET buf == Append(data_points[t],
                       IF o.kind = "raise" THEN ErrorPoint(t) ELSE DataPoint(t, o))
         flush == o.kind # "raise" /\ Len(buf) >= BatchSize
     IN  IF ~flush
           THEN /\ saved
                /\ data_points' = [data_points EXCEPT ![t] = buf]
                /\ UNCHANGED <<files, flushed>>
         ELSE IF saved
           THEN /\ files' = SavedFiles(t, buf)
                /\ flushed' = [flushed EXCEPT ![t] = @ \o CsvRows(buf)]
                /\ data_points' = [data_points EXCEPT ![t] = <<>>]
         ELSE /\ data_points' = [data_points EXCEPT ![t] = Append(buf, ErrorPoint(t))]
              /\ UNCHANGED <<files, flushed>>
  /\ UNCHANGED <<rpc, clock, lock, cpc, mon, registryVars, ppc, reports, watcherVars,
                 stopVars>>

\* the while condition is false: the flag was cleared or the deadline has come
ping_loop_exit(t) ==
  /\ ppc[t] = "loop"
  /\ ~LoopGoesOn(t)
  /\ ppc' = [ppc EXCEPT ![t] = "save"]
  /\ UNCHANGED <<rpc, clock, lock, cpc, mon, registryVars, data_points, nprobes,
                 flushed, storeVars, watcherVars, stopVars>>

\* if data_points: self._save_data(data_points); a failure ends the thread
ping_loop_save(t, saved) ==
  /\ ppc[t] = "save"
  /\ IF data_points[t] = <<>>
       THEN /\ saved
            /\ ppc' = [ppc EXCEPT ![t] = "report"]
            /\ UNCHANGED <<files, flushed>>
     ELSE IF saved
       THEN /\ files' = SavedFiles(t, data_points[t])
            /\ flushed' = [flushed EXCEPT ![t] = @ \o CsvRows(data_points[t])]
            /\ ppc' = [ppc EXCEPT ![t] = "report"]
     ELSE /\ ppc' = [ppc EXCEPT ![t] = "dead"]
          /\ UNCHANGED <<files, flushed>>
  /\ UNCHANGED <<rpc, clock, lock, cpc, mon, registryVars, data_points, nprobes,
                 reports, watcherVars, stopVars>>

RECURSIVE SumOf(_)
SumOf(s) == IF s = <<>> THEN 0 ELSE Head(s) + SumOf(Tail(s))

CountStatus(rows, st) == Cardinality({i \in 1..Len(rows) : rows[i].status = st})

\* the latency column with 0 in the place of every missing entry
Latencies_ZeroFilled(rows) ==
  [i \in 1..Len(rows) |->
     IF rows[i].response_time = {} THEN 0
     ELSE CHOOSE v \in rows[i].response_time : TRUE]

\* df['response_time'] without its NaN entries
Latencies(rows) ==
  LET present == SelectSeq(rows, LAMBDA r : r.response_time # {})
  IN  [i \in 1..Len(present) |-> CHOOSE v \in present[i].response_time : TRUE]

\* the stats dict of _generate_report; mean and availability in hundredths,
\* an empty set where pandas yields NaN
Stats(rows) ==
  LET lat == Latencies(rows)
      vals == {lat[i] : i \in 1..Len(lat)}
  IN  [total_pings |-> Len(rows),
       successful_pings |-> CountStatus(rows, "success"),
       timeout_pings |-> CountStatus(rows, "timeout"),
       error_pings |-> CountStatus(rows, "error"),
       avg_response_time |->
         IF lat = <<>> THEN {}
         ELSE {(2 * SumOf(lat) * Hundredths + Len(lat)) \div (2 * Len(lat))},
       min_response_time |-> {v \in vals : \A w \in vals : v <= w},
       max_response_time |-> {v \in vals : \A w \in vals : v >= w},
       availability |->
         (CountStatus(rows, "success") * 100 * Hundredths) \div Len(rows)]

\* pd.read_csv fails on a row with more fields than the header has
Parses(file) ==
  \A i \in 1..Len(file.rows) : file.rows[i].error_col => file.header_error_col

\* _generate_report without its first test: a report is written for a task
\* that has no data file, with every count 0
ping_loop_report_NoSkip(t) ==
  /\ ppc[t] = "report"
  /\ IF DataFile(t) \in DOMAIN files /\ ~Parses(files[DataFile(t)])
       THEN ppc' = [ppc EXCEPT ![t] = "dead"] /\ UNCHANGED reports
     ELSE /\ ppc' = [ppc EXCEPT ![t] = "done"]
          /\ reports' =
               [x \in DOMAIN reports \cup {t} |->
                  IF x # t THEN reports[x]
                  ELSE IF DataFile(t) \in DOMAIN files
                    THEN [stats |-> Stats(files[DataFile(t)].rows), mtime |-> clock]
                  ELSE [stats |-> [total_pings |-> 0, successful_pings |-> 0,
                                   timeout_pings |-> 0, error_pings |-> 0,
                                   avg_response_time |-> {}, min_response_time |-> {},
                                   max_response_time |-> {}, availability |-> 0],
                        mtime |-> clock]]
  /\ UNCHANGED <<rpc, clock, lock, cpc, mon, registryVars, data_points, nprobes,
                 flushed, files, watcherVars, stopVars>>

\* _generate_report: nothing without a data file; otherwise the whole file is
\* read and the report written.  A read failure ends the thread.
ping_loop_report(t) ==
  /\ ppc[t] = "report"
  /\ IF DataFile(t) \notin DOMAIN files
       THEN ppc' = [ppc EXCEPT ![t] = "done"] /\ UNCHANGED reports
     ELSE IF ~Parses(files[DataFile(t)])
       THEN ppc' = [ppc EXCEPT ![t] = "dead"] /\ UNCHANGED reports
     ELSE /\ ppc' = [ppc EXCEPT ![t] = "done"]
          /\ reports' =
               [x \in DOMAIN reports \cup {t} |->
                  IF x = t THEN [stats |-> Stats(files[DataFile(t)].rows),
                                 mtime |-> clock]
                  ELSE reports[x]]
  /\ UNCHANGED <<rpc, clock, lock, cpc, mon, registryVars, data_points, nprobes,
                 flushed, files, watcherVars, stopVars>>

\* ------------------------------------------------ reads (DataManager, TaskManager)

\* str(uuid.uuid4())[:8]: the identifier as it appears in file names
TaskIdStr(t) == ToString(t)

\* raw_path.glob(f"ping_{task_id}_*.csv")
GlobTaskFiles(t) == {n \in DOMAIN files : n[1] = TaskIdStr(t)}

\* sorted(files): the names in ascending order of their timestamp part
RECURSIVE SortedNames(_)
SortedNames(S) ==
  IF S = {} THEN <<>>
  ELSE LET n == CHOOSE x \in S : \A y \in S : x[2] <= y[2]
       IN  <<n>> \o SortedNames(S \ {n})

RECURSIVE ConcatRows(_)
ConcatRows(names) ==
  IF names = <<>> THEN <<>>
  ELSE files[Head(names)].rows \o ConcatRows(Tail(names))

\* DataManager.load_task_data: {} stands for None; unreadable files are skipped
load_task_data(t) ==
  LET readable == {n \in GlobTaskFiles(t) : Parses(files[n])}
  IN  IF readable = {} THEN {} ELSE {ConcatRows(SortedNames(readable))}

\* DataManager.get_task_report: {} stands for None
get_task_report(t) == IF t \in DOMAIN reports THEN {reports[t].stats} ELSE {}

\* TaskManager.get_task_status: the record or the empty dict
get_task_status(t) == IF t \in task_history THEN {rec[t]} ELSE {}

\* sorted(all_tasks, key=start_time, reverse=True) is stable: a task goes
\* behind every task that starts at the same time or later
RECURSIVE SortDesc(_)
SortDesc(s) ==
  IF s = <<>> THEN <<>>
  ELSE LET rest == SortDesc(SubSeq(s, 1, Len(s) - 1))
           x == s[Len(s)]
           before == SelectSeq(rest, LAMBDA y : rec[y].start_time >= rec[x].start_time)
           after == SelectSeq(rest, LAMBDA y : rec[y].start_time < rec[x].start_time)
       IN  before \o <<x>> \o after

RECURSIVE SetToSeq(_)
SetToSeq(S) ==
  IF S = {} THEN <<>>
  ELSE LET m == CHOOSE x \in S : \A y \in S : x <= y
       IN  <<m>> \o SetToSeq(S \ {m})

\* TaskManager.get_all_tasks: the active tasks that are in task_history, then
\* completed_tasks, sorted by start time, latest first (task ids stand for the
\* records)
get_all_tasks ==
  SortDesc(SetToSeq(active_tasks \cap task_history) \o completed_tasks)

\* ------------------------------------------------ status reader (app.py task_status)

\* get_task_status returns the dict of task_history itself, not a copy: the
\* caller (jsonify) reads its fields after the lock is released, in the order the
\* keys were inserted: status, progress, then end_time.
get_task_status_call(t) ==
  /\ rpc.pc = "idle"
  /\ lock = Free
  /\ t \in task_history
  /\ rpc' = [NoRead EXCEPT !.pc = "status", !.task = t]
  /\ UNCHANGED <<clock, lock, cpc, mon, registryVars, samplerVars, storeVars,
                 watcherVars, stopVars>>

reader_status ==
  /\ rpc.pc = "status"
  /\ rpc' = [rpc EXCEPT !.status = rec[rpc.task].status, !.pc = "progress"]
  /\ UNCHANGED <<clock, lock, cpc, mon, registryVars, samplerVars, storeVars,
                 watcherVars, stopVars>>

reader_progress ==
  /\ rpc.pc = "progress"
  /\ rpc' = [rpc EXCEPT !.progress = rec[rpc.task].progress, !.pc = "end_time"]
  /\ UNCHANGED <<clock, lock, cpc, mon, registryVars, samplerVars, storeVars,
                 watcherVars, stopVars>>

reader_end_time ==
  /\ rpc.pc = "end_time"
  /\ rpc' = [rpc EXCEPT !.end_time = rec[rpc.task].end_time, !.pc = "seen"]
  /\ UNCHANGED <<clock, lock, cpc, mon, registryVars, samplerVars, storeVars,
                 watcherVars, stopVars>>

\* the response is sent
reader_return ==
  /\ rpc.pc = "seen"
  /\ rpc' = NoRead
  /\ UNCHANGED <<clock, lock, cpc, mon, registryVars, samplerVars, storeVars,
                 watcherVars, stopVars>>

\* ------------------------------------------------ the system

\* The threads of the scheduler for the tasks T: requests, watchers, stops and
\* the registry cleanup.  No step of a sampling thread writes a variable that
\* these steps read (they read is_running and never write it), so the registry
\* behaves the same with and without them.
Scheduler(T) ==
  \/ Tick
  \/ \E c \in T, target \in TargetInputs, d \in DurationInputs :
       start_ping(c, target, d)
  \/ \E c \in T : create_task_register(c)
  \/ \E c \in T : monitor_start(c)
  \/ \E c \in T : create_task_spawn(c)
  \/ \E t \in T : monitor_task_init(t)
  \/ \E t \in T : monitor_task_loop(t)
  \/ \E t \in T : monitor_task_update(t)
  \/ \E t \in T : monitor_task_final(t)
  \/ \E t \in T : monitor_task_end_time(t)
  \/ \E t \in T : monitor_task_finish(t)
  \/ \E t \in T : stop_task_begin(t)
  \/ stop_task_join
  \/ stop_task_mark
  \/ stop_task_finish
  \/ \E d \in DaysInputs : cleanup_old_tasks(d)

\* what a probe does under SpecStore
ProbeOutcomes == {Reply(0), Reply(12), NoReply, Raises}

\* The sampling threads of the tasks T and the store's retention.
Sampler(T, limit) ==
  \/ \E t \in T : ping_loop_init(t)
  \/ \E t \in T, o \in ProbeOutcomes, saved \in BOOLEAN :
       ping_loop_iteration(t, o, saved, limit)
  \/ \E t \in T : ping_loop_exit(t)
  \/ \E t \in T, saved \in BOOLEAN : ping_loop_save(t, saved)
  \/ \E t \in T : ping_loop_report(t)
  \/ \E d \in DaysInputs : clean_old_data(d)

Reader(T) ==
  \/ \E t \in T : get_task_status_call(t)
  \/ reader_status
  \/ reader_progress
  \/ reader_end_time
  \/ reader_return

\* The probe results under SpecLoop: the k-th probe of a sampler returns the
\* k-th result of a reference series (seven latencies, two probes without a
\* reply, one exception); the probe that raises in the series may get no reply
\* instead, and from the probe before the one that fills a batch on, a probe
\* may raise instead.
Script ==
  << Reply(10), Reply(12), NoReply, Reply(11), Reply(13), Raises, Reply(9),
     NoReply, Reply(14), Reply(10) >>

LoopOutcomes(k) ==
  LET o == Script[((k - 1) % Len(Script)) + 1]
  IN  {o} \cup (IF o = Raises THEN {NoReply} ELSE {})
          \cup (IF k >= BatchSize - 1 THEN {Raises} ELSE {})

\* The sampling threads of the tasks T over many iterations.
LoopSampler(T, limit) ==
  \/ \E t \in T : ping_loop_init(t)
  \/ \E t \in T, saved \in BOOLEAN :
       \E o \in LoopOutcomes(nprobes[t] + 1) : ping_loop_iteration(t, o, saved, limit)
  \/ \E t \in T : ping_loop_exit(t)
  \/ \E t \in T, saved \in BOOLEAN : ping_loop_save(t, saved)
  \/ \E t \in T : ping_loop_report(t)

\* The create and stop requests for the tasks T.  Their watchers are started and
\* take no step: a sampling loop ends at its own deadline, which is never later
\* than its watcher's, or at a stop request.
Requests(T) ==
  \/ Tick
  \/ \E c \in T, target \in TargetInputs, d \in DurationInputs :
       start_ping(c, target, d)
  \/ \E c \in T : create_task_register(c)
  \/ \E c \in T : monitor_start(c)
  \/ \E c \in T : create_task_spawn(c)
  \/ \E t \in T : stop_task_begin(t)
  \/ stop_task_join
  \/ stop_task_mark
  \/ stop_task_finish

\* the tasks of SpecStore, SpecRead and SpecLoop
LoopTasks == 1..MaxLoopTasks
StoreTasks == 1..MaxStoreTasks
ReadTasks == 1..MaxReadTasks

Next == Scheduler(Tasks)

NextStore == Scheduler(StoreTasks) \/ Sampler(StoreTasks, MaxProbes)

NextRead == Scheduler(ReadTasks) \/ Reader(ReadTasks)

NextLoop == Requests(LoopTasks) \/ LoopSampler(LoopTasks, MaxLoopProbes)

NextShare == Requests(Tasks) \/ Sampler(Tasks, MaxProbes)

\* the scheduler with every task
Spec == Init /\ [][Next]_vars

\* the scheduler, the sampling threads and the store
SpecStore == Init /\ [][NextStore]_vars

\* the scheduler and a reader of task records
SpecRead == Init /\ [][NextRead]_vars

\* the requests and the sampling threads over full batches
SpecLoop == Init /\ [][NextLoop]_vars

\* Scheduling: a thread that can take a step eventually takes one.  This holds
\* for the request thread inside create_task, for the watcher and the sampling
\* thread of each task (their sleeps and the probe's timeout are bounded) and
\* for a stop request that holds the lock (the join is bounded by 5 s).
Fairness(T) ==
  /\ \A t \in T :
       /\ WF_vars(create_task_register(t) \/ monitor_start(t) \/ create_task_spawn(t))
       /\ WF_vars(monitor_task_init(t) \/ monitor_task_loop(t) \/ monitor_task_update(t)
                    \/ monitor_task_final(t) \/ monitor_task_end_time(t)
                    \/ monitor_task_finish(t))
       /\ WF_vars(ping_loop_init(t) \/ ping_loop_exit(t) \/ ping_loop_report(t)
                    \/ \E saved \in BOOLEAN : ping_loop_save(t, saved))
  /\ WF_vars(stop_task_join \/ stop_task_mark \/ stop_task_finish)

\* the scheduler, the sampling threads and the store under fair scheduling
SpecFair == Init /\ [][NextStore]_vars /\ Fairness(StoreTasks)

\* the requests, the sampling threads and the store with every task
SpecShare == Init /\ [][NextShare]_vars

\* ------------------------------------------------ claims

Terminal == {"completed", "stopped"}

\* the tasks that were admitted (registered by create_task)
Admitted == {t \in Tasks : rec[t].status # "none"}

\* C1: the number of tasks registered active never exceeds max_concurrent_tasks.
C1_ActiveWithinCeiling == Cardinality(active_tasks) <= max_concurrent_tasks

\* C2: a status that is completed or stopped never changes again; in particular
\* the watcher does not turn a stopped task into a completed one.
C2_TerminalStatusIsFinal ==
  [][\A t \in Tasks : rec[t].status \in Terminal => rec'[t].status = rec[t].status]_vars

\* C3: once stop_task(t) has returned True, every later stop_task(t) returns
\* False, and after two calls the first of which returned True the status of t
\* is stopped.
C3_StopTwice ==
  \A t \in Tasks :
    /\ \A i, j \in 1..Len(stopResults[t]) :
         i < j /\ stopResults[t][i] => ~stopResults[t][j]
    /\ Len(stopResults[t]) >= 2 /\ stopResults[t][1] => rec[t].status = "stopped"

\* C4: no request with a duration of 0 hours or less, or of more than 24 hours,
\* gets past the validation: none registers a task or starts a sampler.
C4_DurationValidated ==
  \A c \in Tasks :
    cpc[c] \in {"register", "start", "thread", "done"} =>
      mon[c].duration > 0 /\ mon[c].duration <= MaxDurationHours

\* C5: a create request with valid inputs that is checked while the number of
\* active tasks is at the ceiling fails with the capacity error and changes
\* neither the registry nor any monitor, and a request that has failed so never
\* registers a task or starts a sampler or a watcher.
C5_CapacityRefusal ==
  [][\A c \in Tasks :
       /\ ( /\ cpc[c] = "idle"
            /\ cpc'[c] \notin {"idle", "bad_target", "bad_duration"}
            /\ Cardinality(active_tasks) >= max_concurrent_tasks )
          => /\ cpc'[c] = "capacity"
             /\ UNCHANGED <<active_tasks, task_history, completed_tasks, rec, mon,
                            ppc, wpc>>
       /\ cpc[c] = "capacity"
          => /\ cpc'[c] = "capacity"
             /\ c \notin active_tasks' /\ c \notin task_history'
             /\ rec'[c] = NoRec /\ ppc'[c] = "none" /\ wpc'[c] = "none"]_vars

\* C5 witness: a request was refused for capacity while another task is active.
C5_Witness ==
  \E c \in Tasks :
    cpc[c] = "capacity" /\ Cardinality(active_tasks) >= max_concurrent_tasks

\* C6: the progress of every task record stays within 0..100 %, never decreases
\* from one state to the next, is exactly 100 % on every completed record that
\* can be read, and is exactly 100 % once the watcher of the task has finished
\* its terminal block, whether the task was stopped or ran out.
C6_ProgressMonotone ==
  [][\A t \in Tasks :
       /\ rec'[t].progress >= 0 /\ rec'[t].progress <= FullProgress
       /\ rec[t].status # "none" => rec'[t].progress >= rec[t].progress
       /\ lock' = Free /\ rec'[t].status = "completed" => rec'[t].progress = FullProgress
       /\ wpc'[t] = "done" /\ t \in task_history' => rec'[t].progress = FullProgress]_vars

\* C6 witness: one task was stopped and its watcher has ended it with 100 %,
\* while another is running with its progress updated to a value in between.
C6_Witness ==
  \E t, u \in Tasks :
    /\ wpc[t] = "done" /\ rec[t].progress = FullProgress
    /\ Len(stopResults[t]) > 0 /\ stopResults[t][1]
    /\ rec[u].status = "running"
    /\ rec[u].progress > 0 /\ rec[u].progress < FullProgress

\* how often t is in the result of get_all_tasks
TimesListed(t) ==
  Cardinality({i \in 1..Len(get_all_tasks) : get_all_tasks[i] = t})

\* C7: whenever get_all_tasks can run, every task admitted and not purged by a
\* cleanup is in its result exactly once.
C7_ListedOnce ==
  lock = Free => \A t \in Admitted \ purged : TimesListed(t) = 1

\* C8: what a reader has read from a task record is not a partial update: a
\* completed status comes with an end time and 100 %, a stopped one with an
\* end time.
C8_NoPartialRecord ==
  rpc.pc = "seen" =>
    /\ rpc.status = "completed" => rpc.end_time # {} /\ rpc.progress = FullProgress
    /\ rpc.status = "stopped" => rpc.end_time # {}

\* the sample series and the report of t are in the store
InStore(t) == mon[t].data_file \subseteq DOMAIN files /\ t \in DOMAIN reports
StoreHasNone(t) ==
  mon[t].data_file \cap DOMAIN files = {} /\ t \notin DOMAIN reports

\* C9: after cleanup_old_tasks(d) every terminal task whose end time is before
\* the cutoff is gone from get_all_tasks and from the store, and every terminal
\* task that ended after the cutoff, listed and stored before, still is.
C9_CleanupPurges ==
  [][\A d \in DaysInputs : cleanup_old_tasks(d) =>
       \A t \in Admitted :
         rec[t].status \in Terminal /\ rec[t].end_time # {} =>
           /\ TaskTime(t) < Cutoff(d) => (TimesListed(t) = 0)' /\ StoreHasNone(t)'
           /\ TaskTime(t) > Cutoff(d) /\ TimesListed(t) = 1 /\ InStore(t)
                => (TimesListed(t) = 1)' /\ InStore(t)']_vars

\* C10: once the sampler of t has appended batches, load_task_data(t) is found
\* and is exactly these batches in the order they were appended.
C10_LoadReturnsFlushed ==
  \A t \in Tasks : flushed[t] # <<>> => load_task_data(t) = {flushed[t]}

\* what the specification makes of the probe result o, as a condition on sample s
Classified(o, s) ==
  IF o.kind = "value" THEN s.status = "success" /\ s.response_time = {o.v}
  ELSE IF o.kind = "none" THEN s.status = "timeout" /\ s.response_time = {}
  ELSE s.status = "error" /\ s.response_time = {} /\ s.error_col

\* C11: the sample that a loop iteration records for its probe is classified by
\* the probe's result: a latency (0 included) gives success with that latency,
\* no reply gives timeout without latency, an exception gives error without
\* latency and with the error text.
C11_ProbeClassified ==
  [][\A t \in StoreTasks, o \in ProbeOutcomes, saved \in BOOLEAN :
       ping_loop_iteration(t, o, saved, MaxProbes) =>
         LET k == Len(data_points[t]) + 1
         IN  IF Len(data_points'[t]) >= k
               THEN Classified(o, data_points'[t][k])
               ELSE Classified(o, flushed'[t][Len(flushed'[t])])]_vars

\* C12: the buffer is flushed and cleared in the iteration in which it reaches
\* 10 samples, whatever the 10th sample is: when the sampler is back at the head
\* of its loop the buffer holds fewer than 10 samples, so it never holds more
\* than 10.
C12_FlushAtTen ==
  \A t \in Tasks : ppc[t] = "loop" => Len(data_points[t]) < BatchSize

\* the latencies of the successful samples of a series
SuccessLatencies(rows) ==
  LET ok == SelectSeq(rows, LAMBDA r : r.status = "success")
  IN  [i \in 1..Len(ok) |-> CHOOSE v \in ok[i].response_time : TRUE]

\* the number of samples of a series with outcome st
Outcomes(rows, st) == Len(SelectSeq(rows, LAMBDA r : r.status = st))

\* the report st is the one the specification asks for the series rows
ReportFor(rows, st) ==
  LET lat == SuccessLatencies(rows)
      vals == {lat[i] : i \in 1..Len(lat)}
  IN  /\ st.total_pings = Len(rows)
      /\ st.successful_pings = Outcomes(rows, "success")
      /\ st.timeout_pings = Outcomes(rows, "timeout")
      /\ st.error_pings = Outcomes(rows, "error")
      /\ st.successful_pings + st.timeout_pings + st.error_pings = st.total_pings
      /\ \A m \in st.avg_response_time :
            /\ lat # <<>>
            /\ 2 * Len(lat) * m <= 2 * SumOf(lat) * Hundredths + Len(lat)
            /\ 2 * Len(lat) * m > 2 * SumOf(lat) * Hundredths - Len(lat)
      /\ (lat # <<>>) = (st.avg_response_time # {})
      /\ st.min_response_time = {v \in vals : \A w \in vals : v <= w}
      /\ st.max_response_time = {v \in vals : \A w \in vals : v >= w}
      /\ st.availability = (st.successful_pings * 100 * Hundredths) \div st.total_pings

\* the series of the example: the ten probe results of Script, in order
IsExampleSeries(rows) ==
  /\ Len(rows) = Len(Script)
  /\ \A i \in 1..Len(rows) : Classified(Script[i], rows[i])

\* the report of the example: 10 samples, 7 / 2 / 1, mean 11.29 +- 0.01,
\* min 9, max 14, availability 70 %
IsExampleReport(st) ==
  /\ st.total_pings = 10 /\ st.successful_pings = 7
  /\ st.timeout_pings = 2 /\ st.error_pings = 1
  /\ \E m \in st.avg_response_time : m >= 1128 /\ m <= 1130
  /\ st.min_response_time = {9} /\ st.max_response_time = {14}
  /\ st.availability = 70 * Hundredths

\* C13: every report that is written has, for the series in the task's data
\* file, total = the number of samples, the three outcome counts (which sum to
\* the total), mean, min and max latency over the successful samples only and
\* availability = successful / total * 100; for the example series it is the
\* example report.
C13_ReportStats ==
  [][\A t \in Tasks :
       (t \in DOMAIN reports' /\ (t \in DOMAIN reports => reports'[t] # reports[t]))
       => LET rows == files[DataFile(t)].rows
              st == reports'[t].stats
          IN  /\ rows # <<>>
              /\ ReportFor(rows, st)
              /\ IsExampleSeries(rows) => IsExampleReport(st)]_vars

\* C13 witness: the report of the example series has been written.
C13_Witness ==
  \E t \in Tasks :
    /\ t \in DOMAIN reports
    /\ mon[t].data_file \subseteq DOMAIN files
    /\ IsExampleSeries(files[DataFile(t)].rows)
    /\ IsExampleReport(reports[t].stats)

\* stop_task(t) has returned True
Stopped(t) == \E i \in 1..Len(stopResults[t]) : stopResults[t][i]

\* The loop of t was left before its deadline, which only a stop does, and no
\* batch had been flushed by then: all that was ever appended is the buffer
\* the loop was left with.
StoppedUnflushed(t) ==
  /\ ppc[t] \in {"save", "report", "done", "dead"}
  /\ Stopped(t)
  /\ clock < LoopEnd(t)
  /\ Len(flushed[t]) <= Len(data_points[t])

C15_ProbeFailureKeepsLoop ==
  [][\A t \in Tasks :
       /\ ppc[t] = "loop" /\ ppc'[t] # "loop" =>
            \/ ~mon[t].is_running
            \/ \E s \in mon[t].start_time : clock >= s + mon[t].duration
       /\ \A o \in {NoReply, Raises}, saved \in BOOLEAN :
            ping_loop_iteration(t, o, saved, MaxLoopProbes) =>
              /\ ppc'[t] = "loop"
              /\ LET k == Len(data_points[t]) + 1
                 IN  IF Len(data_points'[t]) >= k
                       THEN Classified(o, data_points'[t][k])
                       ELSE Classified(o, flushed'[t][Len(flushed'[t])])]_vars

\* C15 witness: a probe raised, the loop went on and has recorded a later
\* sample, and the sampler is still in its loop with the flag set.
C15_Witness ==
  \E t \in Tasks :
    /\ ppc[t] = "loop" /\ mon[t].is_running /\ clock < LoopEnd(t)
    /\ \E i, j \in 1..Len(data_points[t]) :
         /\ i < j
         /\ data_points[t][i].status = "error"
         /\ data_points[t][j].status = "timeout"

\* C16: a failed store write never ends the sampling thread: after the final
\* flush, failed or not, the sampler goes on to its report, and after a batch
\* flush that failed it is still in its loop.
C16_FlushFailureSurvived ==
  [][\A t \in Tasks :
       /\ ppc[t] = "save" /\ ppc'[t] # "save" => ppc'[t] = "report"
       /\ ppc[t] = "loop" => ppc'[t] \in {"loop", "save"}]_vars

\* the watcher of t is in its loop and the deadline it computed has been reached
DeadlinePassed(t) ==
  /\ wpc[t] \in {"loop", "update"}
  /\ clock >= wlocal[t].start_time + mon[t].duration

\* t has ended: its sampling loop is left, it is out of the active set and its
\* record is terminal with an end time and 100 %
Ended(t) ==
  /\ ppc[t] \in {"save", "report", "done", "dead"}
  /\ t \notin active_tasks
  /\ rec[t].status \in Terminal
  /\ rec[t].end_time # {}
  /\ rec[t].progress = FullProgress

\* C17: under fair scheduling a task whose deadline has been reached ends with
\* no stop request needed: its sampling loop is left and its watcher takes it
\* out of the active set with a terminal status, an end time and 100 %.
C17_DeadlineTerminates ==
  \A t \in StoreTasks : DeadlinePassed(t) ~> Ended(t)

\* C17 witness: a task that ran for a duration of at least one hour has ended
\* and no stop request was ever made.
C17_Witness ==
  \E t \in Tasks : Ended(t) /\ nstops = 0 /\ mon[t].duration >= 1 /\ wpc[t] = "done"

\* C18: when the sampling thread of t has ended, the next poll of t's watcher
\* (one evaluation of its loop) takes it to the terminal block, whether or not
\* the watcher's deadline has been reached.
C18_WatcherSeesSamplerEnd ==
  [][\A t \in Tasks :
       ppc[t] \in {"done", "dead"} /\ wpc[t] = "loop" /\ wpc'[t] # "loop"
         => wpc'[t] = "final"]_vars

\* the last n rows of a sequence
LastRows(s, n) == SubSeq(s, Len(s) - n + 1, Len(s))

\* C19: when the sampler has left its loop and comes to its report, the samples
\* that were in its buffer have been appended to the store; and when it leaves
\* the report step with a sample file in the store, it has written the one
\* report of the task, computed from everything the task appended.
C19_ReportFromCompleteSeries ==
  [][\A t \in Tasks :
       /\ ppc[t] = "save" /\ ppc'[t] = "report" /\ data_points[t] # <<>> =>
            /\ Len(flushed'[t]) >= Len(data_points[t])
            /\ LastRows(flushed'[t], Len(data_points[t])) = CsvRows(data_points[t])
       /\ ppc[t] = "report" /\ ppc'[t] # "report" /\ DataFile(t) \in DOMAIN files =>
            /\ get_task_report(t) = {}
            /\ ppc'[t] = "done"
            /\ (get_task_report(t))' = {Stats(flushed[t])}]_vars

\* C20: no thread holds TaskManager.lock while it waits in the bounded join of
\* PingMonitor.stop().
C20_NoLockAcrossJoin == spc.pc = "join" => lock = Free

\* C21: once stop_task(t) has returned True, the running flag of t's sampler is
\* false, in every state from then on.
C21_StoppedStaysStopped ==
  \A t \in Tasks : Stopped(t) => ~mon[t].is_running

\* C22: whenever no thread holds the lock, a task is in active_tasks exactly
\* when its record is in task_history with status running.
C22_ActiveIffRunning ==
  lock = Free =>
    \A t \in Tasks :
      t \in active_tasks <=> (t \in task_history /\ rec[t].status = "running")

\* C22 witness: with the lock free, one task is active and running while
\* another, stopped and then ended by its watcher, is not active.
C22_Witness ==
  /\ lock = Free
  /\ \E t, u \in Tasks :
       /\ t \in active_tasks /\ rec[t].status = "running"
       /\ u \notin active_tasks /\ Stopped(u) /\ wpc[u] = "done"
       /\ u \in task_history

\* C23: every sample file holds the samples of one task only, and every report
\* of a task is computed from that task's own samples.
C23_SeriesOfOneJob ==
  /\ \A n \in DOMAIN files :
       \A i, j \in 1..Len(files[n].rows) : files[n].rows[i].src = files[n].rows[j].src
  /\ \A t \in DOMAIN reports :
       reports[t].stats.total_pings <= Len(flushed[t])

\* C24: for a task whose watcher has finished, whenever the registry can be
\* read, get_task_status gives a record exactly when get_all_tasks lists the
\* task; so a cleanup removes it from task_history and completed_tasks together
\* or from neither, also when its end time is exactly the cutoff.
C24_HistoryAndListAgree ==
  lock = Free =>
    \A t \in Admitted :
      wpc[t] = "done" => (get_task_status(t) # {} <=> TimesListed(t) >= 1)

\* the samples t's sampler has recorded: those appended to the store and those
\* in its buffer
Recorded(t) == Len(flushed[t]) + Len(data_points[t])

\* the error samples among them
RecordedErrors(t) ==
  Outcomes(flushed[t], "error") + Outcomes(data_points[t], "error")

\* C25: an iteration of the sampling loop records exactly one sample, and it
\* records an error sample only if its probe raised.
C25_OneSamplePerIteration ==
  [][\A t \in Tasks :
       nprobes'[t] = nprobes[t] + 1 =>
         /\ Recorded(t)' = Recorded(t) + 1
         /\ RecordedErrors(t)' > RecordedErrors(t) =>
              \A o \in LoopOutcomes(nprobes'[t]), saved \in BOOLEAN :
                ping_loop_iteration(t, o, saved, MaxLoopProbes) => o = Raises]_vars

====
